---------------------------- MODULE Spec2Model ----------------------------
(***************************************************************************)
(* Stochastic-oscillator strategy: the oscillator calculator               *)
(* (calculate_stochastic), the signal evaluator                            *)
(* (_check_last_candle_condition), the chart renderer                      *)
(* (generate_stochastic_chart, _add_colored_ranges,                        *)
(* _parse_interval_to_minutes), the orchestrator (run) and its two         *)
(* configuration surfaces (the scheduled job _run_strategy and main.py).   *)
(*                                                                         *)
(* Strings that the code splits, strips or parses are sequences of         *)
(* one-character strings.  Floating point values are exact rationals plus  *)
(* NaN and the two infinities.                                             *)
(***************************************************************************)
EXTENDS Integers, Sequences, FiniteSets, TLC

(***************************************************************************)
(* Bounds of the model.                                                    *)
(***************************************************************************)
MaxBars == 2

MaxPrice == 2

MaxWindow == 2

MaxSmooth == 2

(***************************************************************************)
(* Numbers: a float is NaN, +inf / -inf, or the reduced fraction n/d.      *)
(***************************************************************************)
Abs(x) == IF x < 0 THEN -x ELSE x

RECURSIVE GCD(_, _)
GCD(a, b) == IF b = 0 THEN a ELSE GCD(b, a % b)

NaN == [k |-> "nan", n |-> 0, d |-> 1]

Inf(s) == [k |-> "inf", n |-> s, d |-> 1]

Num(a, b) == LET g == GCD(Abs(a), b) IN [k |-> "num", n |-> a \div g, d |-> b \div g]

Int2Val(a) == Num(a, 1)

IsNaN(v) == v.k = "nan"

\* a / b on floats: 0/0 is NaN, x/0 is an infinity of x's sign
FloatDiv(a, b) ==
    IF b = 0 THEN (IF a = 0 THEN NaN ELSE IF a > 0 THEN Inf(1) ELSE Inf(-1))
    ELSE IF b > 0 THEN Num(a, b) ELSE Num(-a, -b)

FloatAdd(x, y) ==
    IF IsNaN(x) \/ IsNaN(y) THEN NaN
    ELSE IF x.k = "inf" /\ y.k = "inf" THEN (IF x.n = y.n THEN x ELSE NaN)
    ELSE IF x.k = "inf" THEN x
    ELSE IF y.k = "inf" THEN y
    ELSE Num(x.n * y.d + y.n * x.d, x.d * y.d)

FloatDivInt(x, w) ==
    IF x.k = "num" THEN Num(x.n, x.d * w) ELSE x

\* v > c and v < c for an integer c; every comparison with NaN is false
FloatGt(v, c) == \/ v.k = "num" /\ v.n > c * v.d
                 \/ v.k = "inf" /\ v.n > 0

FloatLt(v, c) == \/ v.k = "num" /\ v.n < c * v.d
                 \/ v.k = "inf" /\ v.n < 0

(***************************************************************************)
(* Data frames.  A frame has a set of columns, n rows and one sequence per *)
(* column (empty when the column is absent).  none marks Python's None.    *)
(* K and D hold the two indicator columns: they are named %K and %D, or    *)
(* %K_<suffix> and %D_<suffix> (in cols: "%K_", "%D_") once renamed.       *)
(***************************************************************************)
Frame(cols, n, dt, hi, lo, cl, kk, dd) ==
    [none |-> FALSE, cols |-> cols, n |-> n, Datetime |-> dt,
     High |-> hi, Low |-> lo, Close |-> cl, K |-> kk, D |-> dd, suffix |-> <<>>]

None == [none |-> TRUE, cols |-> {}, n |-> 0, Datetime |-> <<>>,
         High |-> <<>>, Low |-> <<>>, Close |-> <<>>, K |-> <<>>, D |-> <<>>, suffix |-> <<>>]

\* DataFrame.empty: some axis has length 0
empty(df) == df.n = 0 \/ df.cols = {}

\* mutant: the column check forgets Close
RequiredCols_NoClose == {"High", "Low"}

RequiredCols == {"High", "Low", "Close"}

(***************************************************************************)
(* ta.momentum.StochasticOscillator as calculate_stochastic uses it        *)
(* (fillna=False): rolling min / max with min_periods = window.            *)
(***************************************************************************)
SeqMin(s, a, b) == CHOOSE m \in {s[j] : j \in a..b} : \A j \in a..b : m <= s[j]

SeqMax(s, a, b) == CHOOSE m \in {s[j] : j \in a..b} : \A j \in a..b : m >= s[j]

\* mutant: the close is measured from the window's high instead of its low
stoch_from_high(high, low, close, window) ==
    [i \in 1..Len(close) |->
        IF i < window THEN NaN
        ELSE LET smin == SeqMin(low, i - window + 1, i)
                 smax == SeqMax(high, i - window + 1, i)
             IN  FloatDiv(100 * (close[i] - smax), smax - smin)]

\* mutant: rolling min / max with min_periods = 1 (no warm-up)
stoch_no_warm_up(high, low, close, window) ==
    [i \in 1..Len(close) |->
        LET from == IF i < window THEN 1 ELSE i - window + 1
            smin == SeqMin(low, from, i)
            smax == SeqMax(high, from, i)
        IN  FloatDiv(100 * (close[i] - smin), smax - smin)]

\* stoch(): 100 * (close - smin) / (smax - smin), NaN during the warm-up
stoch(high, low, close, window) ==
    [i \in 1..Len(close) |->
        IF i < window THEN NaN
        ELSE LET smin == SeqMin(low, i - window + 1, i)
                 smax == SeqMax(high, i - window + 1, i)
             IN  FloatDiv(100 * (close[i] - smin), smax - smin)]

RECURSIVE FloatSum(_, _, _)
FloatSum(s, a, b) == IF a > b THEN Int2Val(0) ELSE FloatAdd(s[a], FloatSum(s, a + 1, b))

\* stoch_signal(): rolling mean of %K with min_periods = smooth_window
stoch_signal(stoch_k, smooth_window) ==
    [i \in 1..Len(stoch_k) |->
        IF i < smooth_window THEN NaN
        \* a NaN in the window makes the mean NaN; rolling() reads +-inf as NaN
        ELSE IF \E j \in (i - smooth_window + 1)..i : stoch_k[j].k # "num" THEN NaN
        ELSE FloatDivInt(FloatSum(stoch_k, i - smooth_window + 1, i), smooth_window)]

(***************************************************************************)
(* calculate_stochastic(data, k_window, d_window).  The result records the *)
(* exception raised ("none" when it returns), the state of the argument    *)
(* object after the call (the columns are added in place) and the value    *)
(* returned.                                                               *)
(***************************************************************************)
Raised(df) == [exc |-> "ValueError", data |-> df, ret |-> None]

calculate_stochastic(df, kw, dw) ==
    IF df.none \/ empty(df) THEN Raised(df)
    ELSE IF ~(RequiredCols \subseteq df.cols) THEN Raised(df)
    ELSE LET sk  == stoch(df.High, df.Low, df.Close, kw)
             out == [df EXCEPT !.cols = @ \cup {"%K", "%D"},
                               !.K = sk,
                               !.D = stoch_signal(sk, dw)]
         IN  [exc |-> "none", data |-> out, ret |-> out]

(***************************************************************************)
(* Dictionaries keep insertion order: a sequence of [key, df] items.       *)
(***************************************************************************)
Item(key, df) == [key |-> key, df |-> df]

HasKey(dict, key) == \E i \in 1..Len(dict) : dict[i].key = key

\* dict[key] = df: replaces the value of an existing key, else appends
DictSet(dict, key, df) ==
    IF HasKey(dict, key)
    THEN [i \in 1..Len(dict) |-> IF dict[i].key = key THEN Item(key, df) ELSE dict[i]]
    ELSE Append(dict, Item(key, df))

(***************************************************************************)
(* _check_last_candle_condition(stochastic_data_all_intervals)             *)
(***************************************************************************)
OverboughtLevel == 80

OversoldLevel == 20

\* the loop that collects data["%K"].iloc[-1] of every non-empty frame
RECURSIVE last_k_values(_)
last_k_values(dict) ==
    IF dict = <<>> THEN <<>>
    ELSE LET df == Head(dict).df
         IN  (IF ~empty(df) THEN <<df.K[df.n]>> ELSE <<>>) \o last_k_values(Tail(dict))

\* mutant: an undefined %K does not count against the signal
is_overbought_ignoring_nan(ks) ==
    \A i \in 1..Len(ks) : IsNaN(ks[i]) \/ FloatGt(ks[i], OverboughtLevel)

\* mutant: the overbought test is >= instead of >
is_overbought_inclusive(ks) ==
    \A i \in 1..Len(ks) : FloatGt(ks[i], OverboughtLevel) \/ ks[i] = Int2Val(OverboughtLevel)

is_overbought(ks) == \A i \in 1..Len(ks) : FloatGt(ks[i], OverboughtLevel)

is_oversold(ks) == \A i \in 1..Len(ks) : FloatLt(ks[i], OversoldLevel)

check_last_candle_condition(dict) ==
    LET ks == last_k_values(dict)
    IN  IF ks = <<>> THEN FALSE ELSE is_overbought(ks) \/ is_oversold(ks)

(***************************************************************************)
(* Strings: str.split(","), str.strip(), str.endswith, str.isdigit, int.   *)
(***************************************************************************)
Digits == <<"0", "1", "2", "3", "4", "5", "6", "7", "8", "9">>

IsDigitChar(c) == \E v \in 1..10 : Digits[v] = c

DigitValue(c) == (CHOOSE v \in 1..10 : Digits[v] = c) - 1

isdigit(str) == str # <<>> /\ \A i \in 1..Len(str) : IsDigitChar(str[i])

RECURSIVE int(_)
int(str) == IF str = <<>> THEN 0
            ELSE 10 * int(SubSeq(str, 1, Len(str) - 1)) + DigitValue(str[Len(str)])

endswith(str, suffix) ==
    /\ Len(suffix) <= Len(str)
    /\ SubSeq(str, Len(str) - Len(suffix) + 1, Len(str)) = suffix

RECURSIVE split(_)
split(str) ==
    IF \A i \in 1..Len(str) : str[i] # ","
    THEN <<str>>
    ELSE LET p == CHOOSE i \in 1..Len(str) : str[i] = "," /\ \A j \in 1..(i - 1) : str[j] # ","
         IN  <<SubSeq(str, 1, p - 1)>> \o split(SubSeq(str, p + 1, Len(str)))

RECURSIVE strip(_)
strip(str) ==
    IF str = <<>> THEN str
    ELSE IF Head(str) = " " THEN strip(Tail(str))
    ELSE IF str[Len(str)] = " " THEN strip(SubSeq(str, 1, Len(str) - 1))
    ELSE str

\* [x.strip() for x in value.split(",")]
SplitAndStrip(str) == LET parts == split(str) IN [i \in 1..Len(parts) |-> strip(parts[i])]

\* symbol.replace("/", "_")
ReplaceSlash(str) == [i \in 1..Len(str) |-> IF str[i] = "/" THEN "_" ELSE str[i]]

(***************************************************************************)
(* _parse_interval_to_minutes(interval_str)                                *)
(***************************************************************************)
MinutesPerHour == 60

MinutesPerDay == 1440

MinutesPerWeek == 10080

\* unit_map, its keys sorted by length, longest first
sorted_units ==
    <<[unit |-> <<"w", "k">>, minutes |-> MinutesPerWeek],
      [unit |-> <<"m">>, minutes |-> 1],
      [unit |-> <<"h">>, minutes |-> MinutesPerHour],
      [unit |-> <<"d">>, minutes |-> MinutesPerDay]>>

UnitMatches(str, u) ==
    /\ endswith(str, u.unit)
    /\ isdigit(SubSeq(str, 1, Len(str) - Len(u.unit)))

parse_interval_to_minutes(str) ==
    IF \E j \in 1..Len(sorted_units) : UnitMatches(str, sorted_units[j])
    THEN LET j == CHOOSE j \in 1..Len(sorted_units) :
                      /\ UnitMatches(str, sorted_units[j])
                      /\ \A h \in 1..(j - 1) : ~UnitMatches(str, sorted_units[h])
         IN  [exc |-> "none",
              minutes |-> int(SubSeq(str, 1, Len(str) - Len(sorted_units[j].unit))) * sorted_units[j].minutes]
    ELSE [exc |-> "ValueError", minutes |-> 0]

(***************************************************************************)
(* _add_colored_ranges(fig, merged_df, intervals).  The merged frame has   *)
(* n rows, their Datetime and one item [key, K, D] per column pair         *)
(* %K_<key>, %D_<key>.  The value is the sequence of add_vrect calls.      *)
(***************************************************************************)
Red == "rgba(255, 0, 0, 0.2)"

Green == "rgba(0, 255, 0, 0.2)"

\* merged_df[f"%K_{interval}"]
KColumn(merged_df, key) ==
    merged_df.ind[CHOOSE c \in 1..Len(merged_df.ind) : merged_df.ind[c].key = key].K

\* pd.concat([merged_df[f"%K_{i}"] > 80 for i in intervals], axis=1).all(axis=1),
\* from row r on
RECURSIVE all_overbought(_, _, _)
all_overbought(merged_df, intervals_, r) ==
    IF r > merged_df.n THEN <<>>
    ELSE <<\A p \in 1..Len(intervals_) : FloatGt(KColumn(merged_df, intervals_[p])[r], OverboughtLevel)>>
             \o all_overbought(merged_df, intervals_, r + 1)

RECURSIVE all_oversold(_, _, _)
all_oversold(merged_df, intervals_, r) ==
    IF r > merged_df.n THEN <<>>
    ELSE <<\A p \in 1..Len(intervals_) : FloatLt(KColumn(merged_df, intervals_[p])[r], OversoldLevel)>>
             \o all_oversold(merged_df, intervals_, r + 1)

RECURSIVE Rows(_)
Rows(n) == IF n = 0 THEN <<>> ELSE Append(Rows(n - 1), n)

\* index[condition & ~condition.shift(fill_value=False)]
starts(condition) ==
    SelectSeq(Rows(Len(condition)), LAMBDA r : condition[r] /\ (r = 1 \/ ~condition[r - 1]))

\* index[condition & ~condition.shift(-1, fill_value=False)]
ends(condition) ==
    SelectSeq(Rows(Len(condition)), LAMBDA r : condition[r] /\ (r = Len(condition) \/ ~condition[r + 1]))

\* mutant: the rectangle always ends at the last row of its run
range_end_own_row(merged_df, end) == merged_df.Datetime[end]

\* x1: the next candle's start, or the candle's own start on the last row
range_end(merged_df, end) ==
    IF end + 1 <= merged_df.n THEN merged_df.Datetime[end + 1] ELSE merged_df.Datetime[end]

\* for start, end in zip(starts, ends): fig.add_vrect(x0, x1, fillcolor=color)
find_and_add_ranges(merged_df, condition, color) ==
    LET s == starts(condition)
        e == ends(condition)
        m == IF Len(s) < Len(e) THEN Len(s) ELSE Len(e)
    IN  [p \in 1..m |-> [x0 |-> merged_df.Datetime[s[p]],
                         x1 |-> range_end(merged_df, e[p]),
                         fillcolor |-> color]]

add_colored_ranges(merged_df, intervals_) ==
    find_and_add_ranges(merged_df, all_overbought(merged_df, intervals_, 1), Red)
        \o find_and_add_ranges(merged_df, all_oversold(merged_df, intervals_, 1), Green)

(***************************************************************************)
(* generate_stochastic_chart(symbol, data_dict, save_only): what it        *)
(* raises, the figure it builds, the file it writes, whether it opens the  *)
(* display, and the mapping as the call leaves it.                         *)
(***************************************************************************)
ChartSuffix == <<"_", "s", "t", "o", "c", "h", "a", "s", "t", "i", "c", "_", "c", "h", "a", "r", "t", ".", "h", "t", "m", "l">>

NoFigure == [candlestick |-> <<>>, traces |-> <<>>, shapes |-> <<>>]

NoMerge == [n |-> 0, Datetime |-> <<>>, ind |-> <<>>]

NoChart(exc) ==
    [exc |-> exc, file |-> <<>>, shown |-> FALSE, fig |-> NoFigure, data_dict |-> <<>>,
     merged_df |-> NoMerge]

\* _parse_interval_to_minutes of every key, in the mapping's order
RECURSIVE key_minutes(_)
key_minutes(data_dict) ==
    IF data_dict = <<>> THEN <<>>
    ELSE <<parse_interval_to_minutes(Head(data_dict).key)>> \o key_minutes(Tail(data_dict))

\* min(data_dict.keys(), key=_parse_interval_to_minutes): the first of the smallest
lowest_interval(km) ==
    CHOOSE p \in 1..Len(km) :
        /\ \A q \in 1..Len(km) : km[p].minutes <= km[q].minutes
        /\ \A q \in 1..(p - 1) : km[q].minutes > km[p].minutes

\* sorted(data_dict.keys(), key=_parse_interval_to_minutes) as positions,
\* from position r on; the sort is stable
RECURSIVE sorted_intervals(_, _)
sorted_intervals(km, r) ==
    IF r > Len(km) THEN <<>>
    ELSE LET Before(p, q) == \/ km[p].minutes < km[q].minutes
                             \/ km[p].minutes = km[q].minutes /\ p < q
         IN  <<CHOOSE p \in 1..Len(km) : Cardinality({q \in 1..Len(km) : Before(q, p)}) = r - 1>>
                 \o sorted_intervals(km, r + 1)

\* mutant: no copy, candlestick_data is the object the mapping holds
copy_same_object(obj) == obj

\* DataFrame.copy(): the object that results; 0 is a new object, p > 0 is
\* the object the mapping holds at position p
copy(obj) == 0

\* df.rename(columns={"%K": f"%K_{interval}", "%D": f"%D_{interval}"}, inplace=True)
rename(df, interval) ==
    IF {"%K", "%D"} \cap df.cols = {} THEN df
    ELSE [df EXCEPT !.cols = (@ \ {"%K", "%D"})
                                \cup (IF "%K" \in df.cols THEN {"%K_"} ELSE {})
                                \cup (IF "%D" \in df.cols THEN {"%D_"} ELSE {}),
                    !.suffix = interval]

\* the mapping once line 89 and the in-place rename of line 97 have run
RECURSIVE renamed_in_place(_, _, _)
renamed_in_place(data_dict, obj, p) ==
    IF p > Len(data_dict) THEN <<>>
    ELSE <<IF p = obj THEN Item(data_dict[p].key, rename(data_dict[p].df, data_dict[p].key))
           ELSE data_dict[p]>> \o renamed_in_place(data_dict, obj, p + 1)

\* the frame of candlestick_data as merge_asof sees it
AsMerged(df) ==
    [n |-> df.n, Datetime |-> df.Datetime,
     ind |-> IF {"%K_", "%D_"} \subseteq df.cols
             THEN <<[key |-> df.suffix, K |-> df.K, D |-> df.D]>> ELSE <<>>]

\* one merged column: each left row takes the last right row that is not
\* later than it, NaN if there is none
RECURSIVE asof_column(_, _, _, _)
asof_column(left_times, right_times, col, r) ==
    IF r > Len(left_times) THEN <<>>
    ELSE LET Match == {j \in 1..Len(right_times) : right_times[j] <= left_times[r]}
         IN  <<IF Match = {} THEN NaN
               ELSE col[CHOOSE j \in Match : \A h \in Match : h <= j]>>
                 \o asof_column(left_times, right_times, col, r + 1)

\* pd.merge_asof(left, right, on="Datetime", direction="backward")
merge_asof(left, key, right) ==
    [left EXCEPT !.ind = Append(@, [key |-> key,
                                    K |-> asof_column(left.Datetime, right.Datetime, right.K, 1),
                                    D |-> asof_column(left.Datetime, right.Datetime, right.D, 1)])]

\* the loop of lines 95-110 over the positions order[from..]
RECURSIVE merge_all(_, _, _, _, _)
merge_all(merged_df, data_dict, low, order, from) ==
    IF from > Len(order) THEN merged_df
    ELSE LET p == order[from]
         IN  IF p = low
             THEN merge_all(merged_df, data_dict, low, order, from + 1)
             ELSE merge_all(merge_asof(merged_df, data_dict[p].key, data_dict[p].df),
                            data_dict, low, order, from + 1)

CandlestickCols == {"Datetime", "Open", "High", "Low", "Close"}

ScatterCols == {"Datetime", "%K", "%D"}

\* a column that the merge (101), the candlestick (124-128) or a scatter
\* trace (139-151) reads is missing
MissingColumn(data_dict, heap, low) ==
    \/ ~(CandlestickCols \subseteq data_dict[low].df.cols)
    \/ \E p \in 1..Len(data_dict) : ~(ScatterCols \subseteq heap[p].df.cols)

RECURSIVE scatter_traces(_)
scatter_traces(heap) ==
    IF heap = <<>> THEN <<>>
    ELSE <<[name |-> Head(heap).key, x |-> Head(heap).df.Datetime,
            K |-> Head(heap).df.K, D |-> Head(heap).df.D]>> \o scatter_traces(Tail(heap))

RECURSIVE keys(_)
keys(data_dict) ==
    IF data_dict = <<>> THEN <<>> ELSE <<Head(data_dict).key>> \o keys(Tail(data_dict))

\* the figure: the candlestick trace, the scatter traces and the rectangles
figure(candlestick_data, lowest, heap, merged_df) ==
    [candlestick |-> <<[x |-> candlestick_data.Datetime, high |-> candlestick_data.High,
                        low |-> candlestick_data.Low, close |-> candlestick_data.Close,
                        name |-> lowest]>>,
     traces |-> scatter_traces(heap),
     shapes |-> add_colored_ranges(merged_df, keys(heap))]

generate_stochastic_chart(symbol, data_dict, save_only) ==
    IF data_dict = <<>> THEN NoChart("none")
    ELSE LET km == key_minutes(data_dict)
         IN  \* min(data_dict.keys(), key=_parse_interval_to_minutes)
             IF \E i \in 1..Len(km) : km[i].exc # "none"
             THEN [NoChart("ValueError") EXCEPT !.data_dict = data_dict]
             ELSE LET low  == lowest_interval(km)
                      heap == renamed_in_place(data_dict, copy(low), 1)
                  IN  IF MissingColumn(data_dict, heap, low)
                      THEN [NoChart("KeyError") EXCEPT !.data_dict = heap]
                      ELSE LET candlestick_data == rename(data_dict[low].df, data_dict[low].key)
                               merged_df == merge_all(AsMerged(candlestick_data), heap, low,
                                                      sorted_intervals(km, 1), 1)
                           IN  [exc |-> "none",
                                file |-> IF save_only THEN ReplaceSlash(symbol) \o ChartSuffix ELSE <<>>,
                                shown |-> ~save_only,
                                fig |-> figure(candlestick_data, data_dict[low].key, heap, merged_df),
                                data_dict |-> heap,
                                merged_df |-> merged_df]

(***************************************************************************)
(* fetch_market_data(symbol, period, interval) on the provider's response  *)
(***************************************************************************)
fetch_market_data(response) ==
    IF response.none \/ empty(response)
    THEN [exc |-> "ValueError", ret |-> None]
    ELSE [exc |-> "none", ret |-> response]

(***************************************************************************)
(* State.                                                                  *)
(***************************************************************************)
VARIABLES
    pc,             \* position of the running specification
    data,           \* calculate_stochastic: the argument object
    k_window,       \* calculate_stochastic: lookback window
    d_window,       \* calculate_stochastic: smoothing window
    calc,           \* calculate_stochastic: outcome of the call
    signal,         \* _check_last_candle_condition: value returned
    config,         \* what the configuration surface was given
    args,           \* the Namespace handed to run()
    symbols,        \* run: the stripped symbol names
    intervals,      \* run: the stripped interval labels
    symbol_idx,     \* run: position of the outer loop
    interval_idx,   \* run: position of the inner loop
    stochastic_data_all_intervals,  \* run: the per-interval mapping of the current symbol
    all_intervals_processed,        \* run: the flag of the current symbol
    exception,      \* the exception that ended the run ("none" while there is none)
    fetches,        \* history: <<symbol position, interval position>> of every fetch request
    unit,           \* history: per symbol and interval "pending", "nodata", "invalid" or "ok"
    evaluated,      \* history: per symbol "no", "true" or "false" (the evaluator's answer)
    rendered,       \* history: per symbol the number of calls of the renderer
    mappings,       \* history: per symbol the mapping it collected
    charts,         \* history: what each call of the renderer produced
    parsed          \* _parse_interval_to_minutes: the argument and the outcome of the call

calcVars == <<data, k_window, d_window, calc>>

runVars == <<config, args, symbols, intervals, symbol_idx, interval_idx,
             all_intervals_processed, exception, fetches, unit, evaluated,
             rendered, mappings, charts, parsed>>

vars == <<pc, calcVars, signal, stochastic_data_all_intervals, runVars>>

NoCall == [exc |-> "pending", data |-> None, ret |-> None]

NoParse == [interval_str |-> <<>>, exc |-> "pending", minutes |-> 0]

Opt(v) == [given |-> TRUE, v |-> v]

NotGiven(v) == [given |-> FALSE, v |-> v]

NoConfig == [surface |-> "none", symbols |-> NotGiven(<<>>), intervals |-> NotGiven(<<>>),
             plot_all |-> NotGiven(FALSE), save_html |-> NotGiven(FALSE),
             save_html_dir |-> NotGiven(<<>>), windows |-> NotGiven(<<0, 0>>)]

NoArgs == [attrs |-> {}, symbols |-> <<>>, intervals |-> <<>>, plot_all |-> FALSE,
           save_html |-> FALSE, save_html_dir |-> <<>>, k_window |-> 0, d_window |-> 0]

CalcIdle ==
    /\ data = None
    /\ k_window = 0
    /\ d_window = 0
    /\ calc = NoCall

RunIdle ==
    /\ config = NoConfig
    /\ args = NoArgs
    /\ symbols = <<>>
    /\ intervals = <<>>
    /\ symbol_idx = 0
    /\ interval_idx = 0
    /\ all_intervals_processed = TRUE
    /\ exception = "none"
    /\ fetches = <<>>
    /\ unit = <<>>
    /\ evaluated = <<>>
    /\ rendered = <<>>
    /\ mappings = <<>>
    /\ charts = <<>>
    /\ parsed = NoParse

(***************************************************************************)
(* SpecCalc: calculate_stochastic on every bounded price series.           *)
(***************************************************************************)
Prices == 0..MaxPrice

AllCols == {"Datetime", "Open", "High", "Low", "Close", "Volume"}

\* one bar of the data model: non-negative prices with high >= low
Bars == {b \in [High : Prices, Low : Prices, Close : Prices] : b.High >= b.Low}

Times(n) == [i \in 1..n |-> i]

Column(rows, cols, c) == IF c \in cols THEN [i \in 1..Len(rows) |-> rows[i][c]] ELSE <<>>

FromRows(rows, cols) ==
    Frame(cols, Len(rows), IF "Datetime" \in cols THEN Times(Len(rows)) ELSE <<>>,
          Column(rows, cols, "High"), Column(rows, cols, "Low"),
          Column(rows, cols, "Close"), <<>>, <<>>)

SampleRows == <<[High |-> 2, Low |-> 0, Close |-> 1], [High |-> 2, Low |-> 1, Close |-> 2]>>

\* frames that lack some of the columns, frames without rows, and None
PartialFrames == {FromRows(SampleRows, cols) : cols \in SUBSET {"Datetime", "High", "Low", "Close"}}

OddFrames == PartialFrames \cup {None, FromRows(<<>>, AllCols)}

\* the 20-bar fixture of the calculator's test
sample_market_data ==
    Frame({"High", "Low", "Close"}, 20, <<>>,
          <<110, 112, 111, 109, 108, 107, 106, 105, 104, 103,
            102, 101, 100, 99, 98, 115, 112, 111, 109, 108>>,
          <<100, 101, 102, 103, 104, 103, 102, 101, 100, 99,
            98, 97, 96, 95, 94, 99, 101, 102, 103, 104>>,
          <<105, 111, 103, 108, 105, 106, 105, 104, 103, 102,
            101, 100, 99, 98, 97, 110, 111, 103, 108, 105>>,
          <<>>, <<>>)

InitCalc ==
    /\ pc = "calc_ready"
    /\ \/ /\ \/ \E n \in 1..MaxBars : \E rows \in [1..n -> Bars] : data = FromRows(rows, AllCols)
             \/ data \in OddFrames
          /\ k_window \in 1..MaxWindow
          /\ d_window \in 1..MaxSmooth
       \/ /\ data = sample_market_data
          /\ k_window = 14
          /\ d_window = 3
    /\ calc = NoCall
    /\ signal = FALSE
    /\ stochastic_data_all_intervals = <<>>
    /\ RunIdle

CallCalculate ==
    /\ pc = "calc_ready"
    /\ calc' = calculate_stochastic(data, k_window, d_window)
    /\ pc' = "calc_done"
    /\ UNCHANGED <<data, k_window, d_window, signal, stochastic_data_all_intervals, runVars>>

NextCalc == CallCalculate

SpecCalc == InitCalc /\ [][NextCalc]_vars

(***************************************************************************)
(* Claims about calculate_stochastic (SpecCalc).                           *)
(***************************************************************************)
Returned == pc = "calc_done" /\ calc.exc = "none"

Defined(v) == ~IsNaN(v)

InRange(v) == v.k = "num" /\ 0 <= v.n /\ v.n <= 100 * v.d

CloseWithinBar(df) == \A i \in 1..df.n : df.Low[i] <= df.Close[i] /\ df.Close[i] <= df.High[i]

\* C6: an absent or empty series, or one that lacks High, Low or Close, makes
\* calculate_stochastic raise ValueError; the argument is left as it was (no
\* %K / %D column) and nothing is returned.
C6_ValidationError ==
    (pc = "calc_done" /\ (data.none \/ empty(data) \/ ~({"High", "Low", "Close"} \subseteq data.cols)))
        => /\ calc.exc = "ValueError"
           /\ calc.data = data
           /\ {"%K", "%D"} \cap calc.data.cols = {}
           /\ calc.ret = None

C6_Witness ==
    /\ pc = "calc_done"
    /\ data.n = 2
    /\ data.cols = {"Datetime", "High", "Low"}
    /\ calc.exc = "ValueError"

C10_WarmUpAndShape ==
    Returned
        => /\ calc.ret.n = data.n
           /\ Len(calc.ret.K) = data.n
           /\ Len(calc.ret.D) = data.n
           /\ calc.ret.Datetime = data.Datetime
           /\ calc.ret.High = data.High
           /\ calc.ret.Low = data.Low
           /\ calc.ret.Close = data.Close
           /\ \A i \in 1..data.n :
                  /\ i < k_window => IsNaN(calc.ret.K[i])
                  /\ i < k_window + d_window - 1 => IsNaN(calc.ret.D[i])

C10_Witness ==
    /\ Returned
    /\ data.n = 2
    /\ k_window = 2
    /\ d_window = 1
    /\ IsNaN(calc.ret.K[1])
    /\ IsNaN(calc.ret.D[1])
    /\ Defined(calc.ret.K[2])
    /\ Defined(calc.ret.D[2])

\* lowest low and highest high of the k_window bars that end at row i
WindowLow(df, i) == SeqMin(df.Low, i - k_window + 1, i)

WindowHigh(df, i) == SeqMax(df.High, i - k_window + 1, i)

\* the unreduced sum <<numerator, denominator>> of the fractions ks[a..b]
RECURSIVE FractionSum(_, _, _)
FractionSum(ks, a, b) ==
    IF a > b THEN <<0, 1>>
    ELSE LET rest == FractionSum(ks, a, b - 1)
         IN  <<rest[1] * ks[b].d + ks[b].n * rest[2], rest[2] * ks[b].d>>

\* v is the arithmetic mean of ks[a..b], all of them numbers
IsMeanOf(v, ks, a, b) ==
    LET total == FractionSum(ks, a, b)
    IN  /\ v.k = "num"
        /\ v.n * total[2] * (b - a + 1) = total[1] * v.d

FormulaAt(df, ret, i) ==
    LET L == WindowLow(df, i)
        H == WindowHigh(df, i)
    IN  /\ H = L => IsNaN(ret.K[i])
        /\ H # L => /\ ret.K[i].k = "num"
                    /\ ret.K[i].n * (H - L) = 100 * (df.Close[i] - L) * ret.K[i].d
        /\ (H # L /\ df.Close[i] = H) => ret.K[i] = Int2Val(100)

SmoothingAt(ret, i) ==
    IF \A j \in (i - d_window + 1)..i : ret.K[j].k = "num"
    THEN IsMeanOf(ret.D[i], ret.K, i - d_window + 1, i)
    ELSE IsNaN(ret.D[i])

FixtureValues ==
    (data = sample_market_data /\ k_window = 14 /\ d_window = 3)
        => /\ calc.ret.K[20] = Num(1100, 21)
           /\ calc.ret.D[20] = Num(3400, 63)

\* C11: on every row i from the k_window-th on, %K(i) is
\* 100 * (close(i) - L) / (H - L) with L the lowest low and H the highest
\* high of the k_window bars ending at i, and is undefined when H = L; it is
\* 100 when close(i) = H; %D(i) is the mean of the d_window latest %K; the
\* test fixture ends with %K = 1100/21 and %D = 3400/63.
C11_Formula ==
    Returned
        => /\ \A i \in k_window..data.n : FormulaAt(data, calc.ret, i)
           /\ \A i \in (k_window + d_window - 1)..data.n : SmoothingAt(calc.ret, i)
           /\ FixtureValues

(***************************************************************************)
(* SpecEval: _check_last_candle_condition on every bounded mapping.        *)
(***************************************************************************)
MaxEvalIntervals == 3

MaxSeriesLen == 2

L_1m == <<"1", "m">>

L_1h == <<"1", "h">>

L_4h == <<"4", "h">>

L_1d == <<"1", "d">>

L_1wk == <<"1", "w", "k">>

L_1mo == <<"1", "m", "o">>

EvalKeys == <<L_1h, L_4h, L_1d, L_1m, L_1wk>>

\* %K of the most recent row, and of the rows before it
KSamples == {NaN, Int2Val(10), Int2Val(20), Int2Val(50), Int2Val(80), Int2Val(90)}

HistSamples == {Int2Val(50)}

KSeries ==
    {<<>>} \cup {Append(h, last) : h \in UNION {[1..m -> HistSamples] : m \in 0..(MaxSeriesLen - 1)},
                                   last \in KSamples}

\* pd.DataFrame({"%K": ks})
KFrame(ks) == Frame({"%K"}, Len(ks), <<>>, <<>>, <<>>, <<>>, ks, <<>>)

EvalDict(series) == [i \in 1..Len(series) |-> Item(EvalKeys[i], KFrame(series[i]))]

InitEval ==
    /\ pc = "eval_ready"
    /\ \E m \in 0..MaxEvalIntervals : \E series \in [1..m -> KSeries] :
           stochastic_data_all_intervals = EvalDict(series)
    /\ signal = FALSE
    /\ CalcIdle
    /\ RunIdle

CallCheckLastCandle ==
    /\ pc = "eval_ready"
    /\ signal' = check_last_candle_condition(stochastic_data_all_intervals)
    /\ pc' = "eval_done"
    /\ UNCHANGED <<calcVars, stochastic_data_all_intervals, runVars>>

NextEval == CallCheckLastCandle

SpecEval == InitEval /\ [][NextEval]_vars

\* positions of the series that contribute, and the value each contributes
Contributors(dict) == {i \in 1..Len(dict) : dict[i].df.n > 0}

LatestK(dict, i) == dict[i].df.K[dict[i].df.n]

Above80(v) == (v.k = "num" /\ v.n > 80 * v.d) \/ (v.k = "inf" /\ v.n = 1)

Below20(v) == (v.k = "num" /\ v.n < 20 * v.d) \/ (v.k = "inf" /\ v.n = -1)

RemoveEmpty(dict) == SelectSeq(dict, LAMBDA item : item.df.n > 0)

\* C5: the evaluator answers true exactly when some series contributes and
\* the latest %K of all contributing series is > 80, or of all is < 20; a
\* latest %K of exactly 80 or 20 and a mapping without contributors give
\* false; dropping the empty series does not change the answer.
C5_Unanimity ==
    pc = "eval_done" =>
        LET dict == stochastic_data_all_intervals
            C    == Contributors(dict)
        IN  /\ signal <=> /\ C # {}
                          /\ \/ \A i \in C : Above80(LatestK(dict, i))
                             \/ \A i \in C : Below20(LatestK(dict, i))
            /\ C = {} => ~signal
            /\ (\E i \in C : LatestK(dict, i) \in {Int2Val(80), Int2Val(20)}) => ~signal
            /\ (\E i, j \in C : Above80(LatestK(dict, i)) /\ ~Above80(LatestK(dict, j))) => ~signal
            /\ signal = check_last_candle_condition(RemoveEmpty(dict))

C5_Witness ==
    /\ pc = "eval_done"
    /\ Len(stochastic_data_all_intervals) = 3
    /\ stochastic_data_all_intervals[2].df.n = 0
    /\ stochastic_data_all_intervals[1].df.K = <<Int2Val(50), Int2Val(90)>>
    /\ stochastic_data_all_intervals[3].df.K = <<Int2Val(90)>>
    /\ signal

(***************************************************************************)
(* The orchestrator run(args) and the surfaces that call it.               *)
(***************************************************************************)
DefaultKWindow == 14

DefaultDWindow == 3

DefaultSymbols == <<"B", "T", "C", "-", "U", "S", "D">>

DefaultIntervals == L_1h

DefaultSaveHtmlDir == <<"/", "o", "p", "t", "/", "a", "i", "r", "f", "l", "o", "w", "/", "c", "h", "a", "r", "t", "s">>

DefaultKeys == {"symbols", "period", "intervals", "save_html_dir", "plot_all", "k_window", "d_window"}

\* the keys of the job's configuration object
ConfigKeys(c) ==
    {k \in {"symbols", "intervals", "plot_all", "save_html", "save_html_dir"} : c[k].given}
        \cup (IF c.windows.given THEN {"k_window", "d_window"} ELSE {})

\* _run_strategy: {**default_args, **config} as a Namespace
dag_args(c) ==
    [attrs     |-> DefaultKeys \cup ConfigKeys(c),
     symbols   |-> IF c.symbols.given THEN c.symbols.v ELSE DefaultSymbols,
     intervals |-> IF c.intervals.given THEN c.intervals.v ELSE DefaultIntervals,
     plot_all  |-> IF c.plot_all.given THEN c.plot_all.v ELSE FALSE,
     save_html |-> IF c.save_html.given THEN c.save_html.v ELSE FALSE,
     save_html_dir |-> IF c.save_html_dir.given THEN c.save_html_dir.v ELSE DefaultSaveHtmlDir,
     k_window  |-> IF c.windows.given THEN c.windows.v[1] ELSE DefaultKWindow,
     d_window  |-> IF c.windows.given THEN c.windows.v[2] ELSE DefaultDWindow]

\* main.py: the parser defines --symbol (required), --period and --intervals
cli_args(c) ==
    [attrs     |-> {"symbol", "period", "intervals"},
     symbols   |-> <<>>,
     intervals |-> IF c.intervals.given THEN c.intervals.v ELSE DefaultIntervals,
     plot_all  |-> FALSE,
     save_html |-> FALSE,
     save_html_dir |-> <<>>,
     k_window  |-> 0,
     d_window  |-> 0]

\* a caller that builds the Namespace itself, as the tests of run() do
direct_args(c) ==
    [attrs     |-> {"symbols", "intervals", "period", "save_html", "save_html_dir", "plot_all",
                    "k_window", "d_window"},
     symbols   |-> c.symbols.v,
     intervals |-> c.intervals.v,
     plot_all  |-> c.plot_all.v,
     save_html |-> c.save_html.v,
     save_html_dir |-> c.save_html_dir.v,
     k_window  |-> c.windows.v[1],
     d_window  |-> c.windows.v[2]]

\* one pass of the body of the interval loop: fetch, then compute
process_interval(a, response) ==
    IF "period" \notin a.attrs
    THEN [status |-> "crash", exc |-> "AttributeError", df |-> None]
    ELSE LET fetched == fetch_market_data(response)
         IN  IF fetched.exc # "none"
             THEN [status |-> "nodata", exc |-> "none", df |-> None]
             ELSE IF ~({"k_window", "d_window"} \subseteq a.attrs)
             THEN [status |-> "crash", exc |-> "AttributeError", df |-> None]
             ELSE LET computed == calculate_stochastic(fetched.ret, a.k_window, a.d_window)
                  IN  IF computed.exc # "none"
                      THEN [status |-> "invalid", exc |-> "none", df |-> None]
                      ELSE [status |-> "ok", exc |-> "none", df |-> computed.ret]

\* mutant: the except clause does not break
loop_after_no_break(status, i, n) ==
    IF status = "crash" THEN "crashed"
    ELSE IF i < n THEN "interval"
    ELSE "decide"

\* mutant: only a failed fetch leaves the loop
loop_after_break_on_nodata(status, i, n) ==
    IF status = "crash" THEN "crashed"
    ELSE IF status = "nodata" THEN "decide"
    ELSE IF i < n THEN "interval"
    ELSE "decide"

\* where the interval loop goes after a pass: the except clause breaks
loop_after(status, i, n) ==
    IF status = "crash" THEN "crashed"
    ELSE IF status # "ok" THEN "decide"
    ELSE IF i < n THEN "interval"
    ELSE "decide"

NoRender(ev, exc) == [evaluated |-> ev, called |-> FALSE, chart |-> NoChart("none"), exc |-> exc]

\* the call generate_stochastic_chart(symbol, mapping, args.save_html)
render_call(a, symbol, dict, ev) ==
    IF "save_html" \notin a.attrs
    THEN NoRender(ev, "AttributeError")
    ELSE LET chart == generate_stochastic_chart(symbol, dict, a.save_html)
         IN  [evaluated |-> ev, called |-> TRUE, chart |-> chart, exc |-> chart.exc]

\* the statements after the interval loop
render_step(a, symbol, dict, processed) ==
    IF ~(processed /\ dict # <<>>) THEN NoRender("no", "none")
    ELSE IF "plot_all" \notin a.attrs THEN NoRender("no", "AttributeError")
    ELSE IF a.plot_all THEN render_call(a, symbol, dict, "no")
    ELSE IF check_last_candle_condition(dict) THEN render_call(a, symbol, dict, "true")
    ELSE NoRender("false", "none")

(***************************************************************************)
(* Spec: a configuration surface, then run().                              *)
(***************************************************************************)
S_empty == <<>>

S_blank == <<" ">>

S_A == <<"A">>

S_A_B == <<"A", ",", " ", "B">>

L_1h_1d == <<"1", "h", ",", "1", "d">>

SymbolInputs == {S_empty, S_blank, S_A, S_A_B}

IntervalInputs == {L_1h, L_1h_1d, L_1mo}

WindowInputs == {<<2, 2>>}

D_out == <<"/", "o", "u", "t">>

OverboughtRows == <<[High |-> 2, Low |-> 0, Close |-> 1], [High |-> 2, Low |-> 1, Close |-> 2]>>

OversoldRows == <<[High |-> 2, Low |-> 0, Close |-> 1], [High |-> 1, Low |-> 0, Close |-> 0]>>

MidRows == <<[High |-> 2, Low |-> 0, Close |-> 1], [High |-> 2, Low |-> 0, Close |-> 1]>>

\* a window whose high equals its low
FlatRows == <<[High |-> 1, Low |-> 1, Close |-> 1], [High |-> 1, Low |-> 1, Close |-> 1]>>

\* what the provider may answer to one request
ProviderResponses ==
    {None, FromRows(<<>>, AllCols),
     FromRows(OverboughtRows, AllCols), FromRows(OversoldRows, AllCols), FromRows(MidRows, AllCols),
     FromRows(FlatRows, AllCols), FromRows(MidRows, AllCols \ {"Close"})}

OptOrAbsent(S, dummy) == {Opt(v) : v \in S} \cup {NotGiven(dummy)}

DagConfigs ==
    [surface : {"dag"}, symbols : OptOrAbsent(SymbolInputs, <<>>),
     intervals : OptOrAbsent(IntervalInputs, <<>>), plot_all : OptOrAbsent(BOOLEAN, FALSE),
     save_html : OptOrAbsent(BOOLEAN, FALSE), save_html_dir : OptOrAbsent({D_out}, <<>>),
     windows : OptOrAbsent(WindowInputs, <<0, 0>>)]

CliConfigs ==
    [surface : {"cli"}, symbols : OptOrAbsent({S_A}, <<>>),
     intervals : OptOrAbsent({L_1h_1d}, <<>>), plot_all : {NotGiven(FALSE)},
     save_html : {NotGiven(FALSE)}, save_html_dir : {NotGiven(<<>>)},
     windows : {NotGiven(<<0, 0>>)}]

DirectConfigs ==
    [surface : {"direct"}, symbols : {Opt(v) : v \in SymbolInputs},
     intervals : {Opt(v) : v \in IntervalInputs}, plot_all : {Opt(v) : v \in BOOLEAN},
     save_html : {Opt(v) : v \in BOOLEAN}, save_html_dir : OptOrAbsent({D_out}, <<>>),
     windows : {Opt(v) : v \in WindowInputs \cup {<<DefaultKWindow, DefaultDWindow>>}}]

Init ==
    /\ pc = "start"
    /\ config \in DagConfigs \cup CliConfigs \cup DirectConfigs
    /\ args = NoArgs
    /\ symbols = <<>>
    /\ intervals = <<>>
    /\ symbol_idx = 0
    /\ interval_idx = 0
    /\ stochastic_data_all_intervals = <<>>
    /\ all_intervals_processed = TRUE
    /\ exception = "none"
    /\ fetches = <<>>
    /\ unit = <<>>
    /\ evaluated = <<>>
    /\ rendered = <<>>
    /\ mappings = <<>>
    /\ charts = <<>>
    /\ parsed = NoParse
    /\ signal = FALSE
    /\ CalcIdle

loopVars == <<symbols, intervals, symbol_idx, interval_idx,
              stochastic_data_all_intervals, all_intervals_processed>>

histVars == <<fetches, unit, evaluated, rendered, mappings, charts>>

\* the scheduled job: merge the defaults, refuse empty symbols, call run
RunStrategy ==
    /\ pc = "start"
    /\ config.surface = "dag"
    /\ args' = dag_args(config)
    /\ IF args'.symbols = <<>>
       THEN pc' = "failed" /\ exception' = "ValueError"
       ELSE pc' = "run" /\ exception' = "none"
    /\ UNCHANGED <<config, calcVars, parsed, signal, loopVars, histVars>>

\* main.py: parse the command line, call run
Main ==
    /\ pc = "start"
    /\ config.surface = "cli"
    /\ args' = cli_args(config)
    /\ IF ~config.symbols.given
       THEN pc' = "failed" /\ exception' = "SystemExit"
       ELSE pc' = "run" /\ exception' = "none"
    /\ UNCHANGED <<config, calcVars, parsed, signal, loopVars, histVars>>

DirectCall ==
    /\ pc = "start"
    /\ config.surface = "direct"
    /\ args' = direct_args(config)
    /\ pc' = "run"
    /\ UNCHANGED <<config, exception, calcVars, parsed, signal, loopVars, histVars>>

\* run: split and strip the two lists
RunBegin ==
    /\ pc = "run"
    /\ IF ~({"symbols", "intervals"} \subseteq args.attrs)
       THEN /\ pc' = "crashed"
            /\ exception' = "AttributeError"
            /\ UNCHANGED <<loopVars, histVars>>
       ELSE /\ symbols' = SplitAndStrip(args.symbols)
            /\ intervals' = SplitAndStrip(args.intervals)
            /\ symbol_idx' = 1
            /\ pc' = "symbol"
            /\ unit' = [s \in 1..Len(symbols') |-> [i \in 1..Len(intervals') |-> "pending"]]
            /\ evaluated' = [s \in 1..Len(symbols') |-> "no"]
            /\ rendered' = [s \in 1..Len(symbols') |-> 0]
            /\ mappings' = [s \in 1..Len(symbols') |-> <<>>]
            /\ UNCHANGED <<exception, interval_idx, stochastic_data_all_intervals,
                           all_intervals_processed, fetches, charts>>
    /\ UNCHANGED <<config, args, calcVars, parsed, signal>>

\* the head of the symbol loop: next symbol with a fresh mapping, or return
SymbolBegin ==
    /\ pc = "symbol"
    /\ IF symbol_idx > Len(symbols)
       THEN /\ pc' = "done"
            /\ UNCHANGED <<interval_idx, stochastic_data_all_intervals, all_intervals_processed>>
       ELSE /\ pc' = "interval"
            /\ interval_idx' = 1
            /\ stochastic_data_all_intervals' = <<>>
            /\ all_intervals_processed' = TRUE
    /\ UNCHANGED <<config, args, calcVars, parsed, signal, symbols, intervals, symbol_idx,
                   exception, histVars>>

\* one pass of the interval loop
IntervalStep ==
    /\ pc = "interval"
    /\ \E response \in ProviderResponses :
          LET r == process_interval(args, response)
          IN  /\ fetches' = Append(fetches, <<symbol_idx, interval_idx>>)
              /\ unit' = [unit EXCEPT ![symbol_idx][interval_idx] = r.status]
              /\ stochastic_data_all_intervals' =
                     IF r.status = "ok"
                     THEN DictSet(stochastic_data_all_intervals, intervals[interval_idx], r.df)
                     ELSE stochastic_data_all_intervals
              /\ all_intervals_processed' = (all_intervals_processed /\ r.status \notin {"nodata", "invalid"})
              /\ pc' = loop_after(r.status, interval_idx, Len(intervals))
              /\ interval_idx' = IF pc' = "interval" THEN interval_idx + 1 ELSE interval_idx
              /\ exception' = r.exc
    /\ mappings' = [mappings EXCEPT ![symbol_idx] = stochastic_data_all_intervals']
    /\ UNCHANGED <<config, args, calcVars, parsed, signal, symbols, intervals, symbol_idx,
                   evaluated, rendered, charts>>

\* after the interval loop: evaluate, render or not, go to the next symbol
Decide ==
    /\ pc = "decide"
    /\ LET r == render_step(args, symbols[symbol_idx], stochastic_data_all_intervals,
                            all_intervals_processed)
       IN  /\ evaluated' = [evaluated EXCEPT ![symbol_idx] = r.evaluated]
           /\ rendered' = [rendered EXCEPT ![symbol_idx] = IF r.called THEN @ + 1 ELSE @]
           /\ charts' = IF r.called THEN Append(charts, [symbol_idx |-> symbol_idx, chart |-> r.chart]) ELSE charts
           /\ stochastic_data_all_intervals' =
                  IF r.called /\ r.chart.data_dict # <<>>
                  THEN r.chart.data_dict ELSE stochastic_data_all_intervals
           /\ exception' = r.exc
           /\ IF r.exc # "none"
              THEN pc' = "crashed" /\ symbol_idx' = symbol_idx
              ELSE pc' = "symbol" /\ symbol_idx' = symbol_idx + 1
    /\ UNCHANGED <<config, args, calcVars, parsed, signal, symbols, intervals, interval_idx,
                   all_intervals_processed, fetches, unit, mappings>>

Next == RunStrategy \/ Main \/ DirectCall \/ RunBegin \/ SymbolBegin \/ IntervalStep \/ Decide

Spec == Init /\ [][Next]_vars

TypeOK ==
    /\ pc \in {"start", "run", "symbol", "interval", "decide", "done", "crashed", "failed"}
    /\ exception \in {"none", "ValueError", "AttributeError", "KeyError", "SystemExit"}
    /\ Len(unit) = Len(symbols)
    /\ Len(rendered) = Len(symbols)

(***************************************************************************)
(* Claims about run() (Spec).                                              *)
(***************************************************************************)
Terminated == pc \in {"done", "crashed", "failed"}

SymbolPositions == 1..Len(symbols)

IntervalPositions == 1..Len(intervals)

\* symbol s has left the loop body, or the run is over
Finished(s) == Terminated \/ symbol_idx > s

AllOk(s) == \A i \in IntervalPositions : unit[s][i] = "ok"

Failed(s, i) == unit[s][i] \in {"nodata", "invalid"}

Requested(s, i) == \E p \in 1..Len(fetches) : fetches[p] = <<s, i>>

RendererRaised(s) == \E p \in 1..Len(charts) : charts[p].symbol_idx = s /\ charts[p].chart.exc # "none"

\* C1: per symbol the renderer is called at most once, and exactly once if
\* and only if every interval was fetched and computed without error and
\* plot_all is set or the evaluator answers true on the symbol's mapping.
C1_RenderIff ==
    \A s \in SymbolPositions :
        /\ rendered[s] <= 1
        /\ Finished(s) =>
               (rendered[s] = 1 <=>
                    /\ AllOk(s)
                    /\ args.plot_all \/ check_last_candle_condition(mappings[s]))

\* C2: the intervals of a symbol are requested in the listed order, and
\* once one of them fails (fetch or computation) no later interval of that
\* symbol is ever requested, the evaluator is not run and no chart is
\* rendered for that symbol, plot_all or not.
C2_FailFast ==
    \A s \in SymbolPositions :
        /\ \A p, q \in 1..Len(fetches) :
               (p < q /\ fetches[p][1] = s /\ fetches[q][1] = s) => fetches[p][2] < fetches[q][2]
        /\ \A i \in IntervalPositions :
               /\ Requested(s, i) <=> unit[s][i] # "pending"
               /\ Requested(s, i) => \A j \in 1..(i - 1) : unit[s][j] = "ok"
               /\ Failed(s, i) =>
                      /\ \A j \in IntervalPositions : j > i => ~Requested(s, j)
                      /\ evaluated[s] = "no"
                      /\ rendered[s] = 0

C2_Witness ==
    /\ pc = "done"
    /\ args.plot_all
    /\ Len(symbols) = 2
    /\ unit[1] = <<"nodata", "pending">>
    /\ unit[2] = <<"ok", "invalid">>
    /\ fetches = <<(<<1, 1>>), (<<2, 1>>), (<<2, 2>>)>>
    /\ rendered = <<0, 0>>

\* C3: what is requested for a symbol follows from that symbol's own
\* results alone: whatever happened to the symbols before it, its first
\* interval is requested, and each further interval exactly when the one
\* before it succeeded.
C3_SymbolIndependence ==
    (Terminated /\ pc # "failed") =>
        \A b \in SymbolPositions :
            /\ Requested(b, 1)
            /\ \A i \in IntervalPositions :
                   i > 1 => (Requested(b, i) <=> unit[b][i - 1] = "ok")

\* C4: whatever error a step of a symbol produces (no data, invalid input,
\* or the renderer raising), run() goes on to every later symbol and
\* returns normally.
C4_NeverCrashes ==
    Terminated =>
        \A s \in SymbolPositions :
            ((\E i \in IntervalPositions : Failed(s, i)) \/ RendererRaised(s))
                => /\ pc = "done"
                   /\ exception = "none"
                   /\ \A t \in SymbolPositions : t > s => Requested(t, 1)

\* C7 as stated: after an input-validation error in one unit, the remaining
\* intervals of the same symbol are still fetched and computed.
C7_Original ==
    \A s \in SymbolPositions : \A i \in IntervalPositions :
        (unit[s][i] = "invalid" /\ Finished(s))
            => \A j \in IntervalPositions : j > i => Requested(s, j)

\* C7 amended: an input-validation error in one unit aborts the rest of
\* that symbol only: none of its remaining intervals is fetched or computed,
\* no chart is rendered for it, and the next symbol is still processed.
C7_AbortsRestOfSymbolOnly ==
    \A s \in SymbolPositions : \A i \in IntervalPositions :
        unit[s][i] = "invalid"
            => /\ \A j \in IntervalPositions : j > i => (~Requested(s, j) /\ unit[s][j] = "pending")
               /\ rendered[s] = 0
               /\ (Terminated /\ s < Len(symbols)) => Requested(s + 1, 1)

C7_Witness ==
    /\ pc = "done"
    /\ Len(symbols) = 2
    /\ unit[1] = <<"invalid", "pending">>
    /\ unit[2][1] = "ok"
    /\ rendered[1] = 0

\* C8: when no symbols are supplied (absent, empty, or only blank names),
\* the run ends with a fatal error and no fetch request is ever issued.
NoSymbolsSupplied ==
    \/ ~config.symbols.given
    \/ \A i \in 1..Len(SplitAndStrip(config.symbols.v)) : SplitAndStrip(config.symbols.v)[i] = <<>>

C8_NoSymbolsNoFetch ==
    NoSymbolsSupplied
        => /\ fetches = <<>>
           /\ Terminated => pc = "failed"

(***************************************************************************)
(* SpecRender: generate_stochastic_chart, twice, on every bounded mapping. *)
(***************************************************************************)
MaxRenderRows == 3

RenderLevels == {Int2Val(10), Int2Val(50), Int2Val(90)}

CoarseLevels == {Int2Val(10), Int2Val(90)}

\* a computed series (d_window = 1) with the given timestamps and %K
IndicatorFrame(times, ks) ==
    Frame(AllCols \cup {"%K", "%D"}, Len(times), times,
          [r \in 1..Len(times) |-> 2], [r \in 1..Len(times) |-> 0],
          [r \in 1..Len(times) |-> 1], ks, ks)

\* the members of a set of timestamps in increasing order
RECURSIVE Increasing(_)
Increasing(T) ==
    IF T = {} THEN <<>>
    ELSE LET t == CHOOSE t \in T : \A u \in T : t <= u
         IN  <<t>> \o Increasing(T \ {t})

S_A_slash_B == <<"A", "/", "B">>

\* the label sequences of the mappings: one label, two in either order, and 1mo
RenderKeys == {<<L_1h>>, <<L_1h, L_1d>>, <<L_1d, L_1h>>, <<L_1mo>>}

IsFine(key) == key # L_1d

InitRender ==
    /\ pc = "render_ready"
    /\ \/ \E labels \in RenderKeys :
             \E n \in 1..MaxRenderRows : \E fine \in [1..n -> RenderLevels] :
             \E T \in SUBSET (1..MaxRenderRows) : \E coarse \in [1..Cardinality(T) -> CoarseLevels] :
                /\ T # {}
                /\ Len(labels) = 1 => T = {1} /\ coarse[1] = Int2Val(10)
                /\ stochastic_data_all_intervals =
                       [p \in 1..Len(labels) |->
                           Item(labels[p], IF IsFine(labels[p])
                                         THEN IndicatorFrame(Rows(n), fine)
                                         ELSE IndicatorFrame(Increasing(T), coarse))]
       \/ stochastic_data_all_intervals = <<>>
       \/ stochastic_data_all_intervals = <<Item(L_1h, FromRows(MidRows, AllCols))>>
    /\ \E b \in BOOLEAN :
          /\ symbols = IF b THEN <<S_A_slash_B>> ELSE <<S_A>>
          /\ args = [NoArgs EXCEPT !.attrs = {"save_html"}, !.save_html = b]
    /\ mappings = <<stochastic_data_all_intervals>>
    /\ charts = <<>>
    /\ exception = "none"
    /\ config = NoConfig
    /\ intervals = <<>>
    /\ symbol_idx = 1
    /\ interval_idx = 0
    /\ all_intervals_processed = TRUE
    /\ fetches = <<>>
    /\ unit = <<>>
    /\ evaluated = <<>>
    /\ rendered = <<0>>
    /\ parsed = NoParse
    /\ signal = FALSE
    /\ CalcIdle

\* one call generate_stochastic_chart(symbol, mapping, save_only)
RenderCall(next) ==
    LET chart == generate_stochastic_chart(symbols[1], stochastic_data_all_intervals, args.save_html)
    IN  /\ charts' = Append(charts, [symbol_idx |-> 1, chart |-> chart])
        /\ stochastic_data_all_intervals' = chart.data_dict
        /\ rendered' = [rendered EXCEPT ![1] = @ + 1]
        /\ exception' = chart.exc
        /\ pc' = next
        /\ UNCHANGED <<config, args, calcVars, parsed, signal, symbols, intervals, symbol_idx,
                       interval_idx, all_intervals_processed, fetches, unit, evaluated, mappings>>

CallRender == pc = "render_ready" /\ RenderCall("render_once")

\* a second call on the same mapping object
CallRenderAgain == pc = "render_once" /\ RenderCall("render_twice")

NextRender == CallRender \/ CallRenderAgain

SpecRender == InitRender /\ [][NextRender]_vars

(***************************************************************************)
(* SpecParse: _parse_interval_to_minutes on every bounded string.          *)
(***************************************************************************)
MaxLabelLen == 3

LabelChars == {"0", "1", "4", "5", "m", "h", "d", "w", "k", "o", "y", "s", "M", "a"}

InitParse ==
    /\ pc = "parse_ready"
    /\ \E n \in 0..MaxLabelLen : \E str \in [1..n -> LabelChars] :
           parsed = [NoParse EXCEPT !.interval_str = str]
    /\ config = NoConfig
    /\ args = NoArgs
    /\ symbols = <<>>
    /\ intervals = <<>>
    /\ symbol_idx = 0
    /\ interval_idx = 0
    /\ stochastic_data_all_intervals = <<>>
    /\ all_intervals_processed = TRUE
    /\ exception = "none"
    /\ fetches = <<>>
    /\ unit = <<>>
    /\ evaluated = <<>>
    /\ rendered = <<>>
    /\ mappings = <<>>
    /\ charts = <<>>
    /\ signal = FALSE
    /\ CalcIdle

CallParse ==
    /\ pc = "parse_ready"
    /\ LET r == parse_interval_to_minutes(parsed.interval_str)
       IN  parsed' = [parsed EXCEPT !.exc = r.exc, !.minutes = r.minutes]
    /\ pc' = "parse_done"
    /\ UNCHANGED <<config, args, calcVars, signal, loopVars, exception, histVars>>

NextParse == CallParse

SpecParse == InitParse /\ [][NextParse]_vars

\* the label is <digits><u>: its digits, or <<>> when it is not of that form
CountOf(str, u) ==
    IF /\ Len(str) > Len(u)
       /\ SubSeq(str, Len(str) - Len(u) + 1, Len(str)) = u
       /\ \A i \in 1..(Len(str) - Len(u)) : str[i] \in {"0", "1", "2", "3", "4", "5", "6", "7", "8", "9"}
    THEN SubSeq(str, 1, Len(str) - Len(u)) ELSE <<>>

\* the number a digit string denotes, read from the left
RECURSIVE Decimal(_, _)
Decimal(digits, acc) ==
    IF digits = <<>> THEN acc
    ELSE Decimal(Tail(digits),
                 10 * acc + (CHOOSE v \in 0..9 : ToString(v) = Head(digits)))

UnitLengths ==
    {[unit |-> <<"m">>, minutes |-> 1], [unit |-> <<"h">>, minutes |-> 60],
     [unit |-> <<"d">>, minutes |-> 1440], [unit |-> <<"w", "k">>, minutes |-> 10080]}

Month == <<"m", "o">>

\* C16: a label <digits><unit> with unit m, h, d, wk or mo is converted to
\* its length in minutes (count times 1, 60, 1440, 10080; some positive
\* length for mo); every other string raises ValueError.
C16_ParsesEveryUnit ==
    pc = "parse_done" =>
        LET str == parsed.interval_str
        IN  /\ \A u \in UnitLengths :
                   CountOf(str, u.unit) # <<>>
                       => /\ parsed.exc = "none"
                          /\ parsed.minutes = Decimal(CountOf(str, u.unit), 0) * u.minutes
            /\ CountOf(str, Month) # <<>>
                   => /\ parsed.exc = "none"
                      /\ parsed.minutes > 0 \/ Decimal(CountOf(str, Month), 0) = 0
            /\ (CountOf(str, Month) = <<>> /\ \A u \in UnitLengths : CountOf(str, u.unit) = <<>>)
                   => parsed.exc = "ValueError"

(***************************************************************************)
(* Claims about the renderer (SpecRender).                                 *)
(***************************************************************************)
RenderCalls == Len(charts)

Before == mappings[1]

\* C13: a call of generate_stochastic_chart leaves the mapping as it was:
\* the same keys, every series with the same columns (%K and %D still so
\* named, nothing renamed or merged in) and the same rows; a second call on
\* the same mapping gives the same outcome and the same figure.
C13_MappingUnchanged ==
    RenderCalls >= 1
        => /\ Len(stochastic_data_all_intervals) = Len(Before)
           /\ \A p \in 1..Len(Before) :
                  LET now == stochastic_data_all_intervals[p]
                  IN  /\ now.key = Before[p].key
                      /\ now.df.cols = Before[p].df.cols
                      /\ now.df.suffix = <<>>
                      /\ now.df = Before[p].df
           /\ RenderCalls = 2
                  => /\ charts[2].chart.exc = charts[1].chart.exc
                     /\ charts[2].chart.fig = charts[1].chart.fig
                     /\ charts[2].chart.file = charts[1].chart.file
                     /\ charts[2].chart.shown = charts[1].chart.shown

C13_Witness ==
    /\ RenderCalls = 2
    /\ Len(Before) = 2
    /\ charts[1].chart.exc = "none"
    /\ charts[2].chart.fig.shapes # <<>>
    /\ {"%K", "%D"} \subseteq stochastic_data_all_intervals[1].df.cols

\* the merged frame the first call handed to _add_colored_ranges
Merged == charts[1].chart.merged_df

MergedRows == 1..Merged.n

AllOverbought(r) == \A c \in 1..Len(Merged.ind) : Above80(Merged.ind[c].K[r])

AllOversold(r) == \A c \in 1..Len(Merged.ind) : Below20(Merged.ind[c].K[r])

\* the maximal runs <<first row, last row>> of rows that satisfy In
MaximalRuns(In(_)) ==
    {run \in MergedRows \X MergedRows :
        /\ run[1] <= run[2]
        /\ \A r \in run[1]..run[2] : In(r)
        /\ run[1] - 1 \in MergedRows => ~In(run[1] - 1)
        /\ run[2] + 1 \in MergedRows => ~In(run[2] + 1)}

Rectangle(run, color) ==
    [x0 |-> Merged.Datetime[run[1]],
     x1 |-> IF run[2] + 1 \in MergedRows THEN Merged.Datetime[run[2] + 1] ELSE Merged.Datetime[run[2]],
     fillcolor |-> color]

\* C15: the rectangles of a rendered chart are exactly one red rectangle per
\* maximal run of merged rows on which every interval's %K is > 80 and one
\* green rectangle per maximal run on which every interval's %K is < 20;
\* each starts at its run's first timestamp and ends at the timestamp of the
\* row after the run, or at the run's last timestamp on the final row.
C15_HighlightRectangles ==
    (RenderCalls >= 1 /\ charts[1].chart.exc = "none" /\ Before # <<>>)
        => LET shapes == charts[1].chart.fig.shapes
               red    == MaximalRuns(AllOverbought)
               green  == MaximalRuns(AllOversold)
           IN  /\ {shapes[i] : i \in 1..Len(shapes)}
                      = {Rectangle(run, Red) : run \in red} \cup {Rectangle(run, Green) : run \in green}
               /\ Len(shapes) = Cardinality(red) + Cardinality(green)

C15_Witness ==
    /\ RenderCalls >= 1
    /\ Len(Merged.ind) = 2
    /\ Merged.n = 3
    /\ Merged.ind[2].K = <<Int2Val(90), Int2Val(90), Int2Val(90)>>
    /\ charts[1].chart.fig.shapes =
           <<[x0 |-> 1, x1 |-> 2, fillcolor |-> Red], [x0 |-> 3, x1 |-> 3, fillcolor |-> Red]>>

\* the output directory the configuration surface ends up with (<<>>: none)
Destination ==
    IF "save_html_dir" \in args.attrs THEN args.save_html_dir ELSE <<>>

RenderDue(s) ==
    /\ AllOk(s)
    /\ args.plot_all \/ check_last_candle_condition(mappings[s])

ChartsOf(s) == SelectSeq(charts, LAMBDA c : c.symbol_idx = s)

\* C12: on the command line and on the scheduled job, whenever a chart is
\* due for a symbol the renderer is called once with the configured
\* destination: given an output directory it writes exactly the file
\* <directory>/<symbol with / replaced by _>_stochastic_chart.html and does
\* not open the display; given none it opens the display and writes no file.
C12_RenderDestination ==
    config.surface \in {"dag", "cli"} =>
        \A s \in SymbolPositions :
            (Finished(s) /\ RenderDue(s))
                => /\ Len(ChartsOf(s)) = 1
                   /\ LET chart == ChartsOf(s)[1].chart
                      IN  IF Destination # <<>>
                          THEN /\ chart.file = Destination \o <<"/">> \o ReplaceSlash(symbols[s]) \o ChartSuffix
                               /\ ~chart.shown
                          ELSE /\ chart.file = <<>>
                               /\ chart.shown

Aborted(s) ==
    /\ \E i \in IntervalPositions : Failed(s, i)
    /\ evaluated[s] = "no"
    /\ rendered[s] = 0

Rendered(s) ==
    \E p \in 1..Len(charts) :
        /\ charts[p].symbol_idx = s
        /\ charts[p].chart.exc = "none"
        /\ charts[p].chart.shown \/ charts[p].chart.file # <<>>

Skipped(s) ==
    /\ evaluated[s] = "false"
    /\ rendered[s] = 0

InOneTerminalState(s) ==
    /\ Cardinality({t \in {"ABORTED", "RENDERED", "SKIPPED"} :
                       \/ t = "ABORTED" /\ Aborted(s)
                       \/ t = "RENDERED" /\ Rendered(s)
                       \/ t = "SKIPPED" /\ Skipped(s)}) = 1
    /\ (Rendered(s) \/ Skipped(s)) => AllOk(s)

\* C14: when run() has ended, every symbol is in exactly one of ABORTED (an
\* interval failed, no chart), RENDERED (chart produced) and SKIPPED
\* (evaluator answered false, no chart); RENDERED and SKIPPED only with
\* every interval of the symbol completed.
C14_OneTerminalState ==
    Terminated => \A s \in SymbolPositions : InOneTerminalState(s)

\* some non-empty series of the mapping has an undefined latest %K
HasUndefinedLatestK(dict) ==
    \E p \in 1..Len(dict) :
        /\ dict[p].df.n > 0
        /\ IsNaN(dict[p].df.K[dict[p].df.n])

\* C17: a series whose latest %K is undefined counts as contributing: when a
\* symbol's mapping holds a non-empty series with an undefined latest %K the
\* evaluator answers false whatever the other series report, and with
\* plot_all unset no chart is rendered for that symbol.
C17_UndefinedBlocksSignal ==
    \A s \in SymbolPositions :
        HasUndefinedLatestK(mappings[s])
            => /\ ~check_last_candle_condition(mappings[s])
               /\ evaluated[s] # "true"
               /\ ("plot_all" \in args.attrs /\ ~args.plot_all)
                      => /\ rendered[s] = 0
                         /\ (Finished(s) /\ AllOk(s)) => evaluated[s] = "false"

C17_Witness ==
    /\ pc = "done"
    /\ ~args.plot_all
    /\ Len(mappings[1]) = 2
    /\ mappings[1][1].df.K[2] = Int2Val(100)
    /\ IsNaN(mappings[1][2].df.K[2])
    /\ evaluated[1] = "false"
    /\ rendered[1] = 0

====
